---- MODULE Spec2Model ----
(***************************************************************************)
(* The Resume Verifier persistence layer: the schema of models.py (seven   *)
(* tables, their defaults, NOT NULL / UNIQUE / CHECK / FOREIGN KEY         *)
(* constraints and cascades), setup_database() and populate_database().    *)
(*                                                                         *)
(* Time is counted in minutes.  Dates are the integers YYYYMMDD, whose     *)
(* order is the calendar order.  Only the columns that carry a constraint, *)
(* a default, a key or a timestamp are kept in a row; free text columns    *)
(* (password_hash, names, urls, descriptions, education_details) carry no  *)
(* rule in models.py and are left out.                                     *)
(***************************************************************************)
EXTENDS Integers, Sequences, FiniteSets, TLC

VARIABLES
    tables,      \* names of the tables that exist in the database
    db,          \* committed rows: table name -> set of rows
    clock,       \* datetime.utcnow(), in minutes
    pc,          \* position of the running script ("idle" when none runs)
    txn,         \* rows INSERTed by the open transaction, not yet committed
    ids,         \* populate_database locals: primary keys of user1.., project1.., exp1..
    db_session,  \* populate_database's db_session: "none", "open", "closed"
    outcome,     \* how the last populate_database call ended
    error,       \* the exception populate_database caught: [kind, at]
    db0,         \* history: the committed rows when populate_database began
    hist,        \* history: [last |-> last finished script, prev |-> the one before the current
                 \* run, failed_at |-> the batch at which that one failed, if it did]
    result,      \* outcome of the last single-row write: [op, table, status, err]
    focus        \* the table whose rows the application varies ("none": no application runs)

vars == <<tables, db, clock, pc, txn, ids, db_session, outcome, error, db0, hist, result, focus>>

(***************************************************************************)
(* Bounds of the model.                                                    *)
(***************************************************************************)
\* how many minutes the clock may advance past Epoch
MaxTick == 1
\* rows the application keeps in the table it varies
MaxRows == 2
\* the largest primary key the application's inserts are followed to
MaxKey == MaxRows

MinutesPerDay == 24 * 60
Days(n) == n * MinutesPerDay
Hours(n) == n * 60
Epoch == Days(400)

\* SQL NULL of a text column, and of an integer / date / datetime column
NULL == "NULL"
NONE == 0 - 1

(***************************************************************************)
(* models.py: the declared tables.                                         *)
(***************************************************************************)
MetadataTables ==
    {"user", "resume_project", "experience", "verification_request",
     "share_link", "session", "template"}

EmptyDb == [t \in MetadataTables |-> {}]

Pk(t) ==
    CASE t = "user" -> "user_id"
      [] t = "resume_project" -> "project_id"
      [] t = "experience" -> "experience_id"
      [] t = "verification_request" -> "request_id"
      [] t = "share_link" -> "share_id"
      [] t = "session" -> "session_id"
      [] t = "template" -> "template_id"

Cols(t) ==
    CASE t = "user" -> {"user_id", "email", "username", "tier", "created_at"}
      [] t = "resume_project" -> {"project_id", "user_id", "template_style", "created_at"}
      [] t = "experience" ->
            {"experience_id", "project_id", "start_date", "end_date",
             "verification_status", "created_at"}
      [] t = "verification_request" ->
            {"request_id", "experience_id", "verification_token", "status",
             "verifier_comment", "requested_at", "responded_at", "expires_at"}
      [] t = "share_link" ->
            {"share_id", "project_id", "share_token", "recipient_email",
             "access_type", "view_count", "created_at", "expires_at"}
      [] t = "session" -> {"session_id", "user_id", "token", "created_at", "expires_at"}
      [] t = "template" -> {"template_id", "template_name", "s3_path", "created_at"}

\* columns declared nullable=True
Nullable(t) ==
    CASE t = "experience" -> {"end_date"}
      [] t = "verification_request" -> {"verifier_comment", "responded_at"}
      [] t = "share_link" -> {"recipient_email", "expires_at"}
      [] OTHER -> {}

\* (mutant) unique=True left off the user columns
UniqueColsNoUser(t) ==
    CASE t = "verification_request" -> {"verification_token"}
      [] t = "share_link" -> {"share_token"}
      [] t = "session" -> {"token"}
      [] t = "template" -> {"s3_path"}
      [] OTHER -> {}

\* columns declared unique=True
UniqueCols(t) ==
    CASE t = "user" -> {"email", "username"}
      [] t = "verification_request" -> {"verification_token"}
      [] t = "share_link" -> {"share_token"}
      [] t = "session" -> {"token"}
      [] t = "template" -> {"s3_path"}
      [] OTHER -> {}

\* ForeignKey(..., ondelete='CASCADE'): the referencing column and the parent table
ForeignKeys(t) ==
    CASE t = "resume_project" -> {[col |-> "user_id", parent |-> "user"]}
      [] t = "experience" -> {[col |-> "project_id", parent |-> "resume_project"]}
      [] t = "verification_request" -> {[col |-> "experience_id", parent |-> "experience"]}
      [] t = "share_link" -> {[col |-> "project_id", parent |-> "resume_project"]}
      [] t = "session" -> {[col |-> "user_id", parent |-> "user"]}
      [] OTHER -> {}

(***************************************************************************)
(* Column defaults, evaluated when the row is INSERTed.  Each default      *)
(* calls datetime.utcnow() on its own; the calls of one INSERT are         *)
(* microseconds apart and read the same minute `now`.                      *)
(***************************************************************************)
VerificationExpiry(now) == now + Days(30)

SessionExpiry(now) == now + Days(7)

Defaults(t, now) ==
    CASE t = "user" ->
            [user_id |-> NONE, email |-> NULL, username |-> NULL,
             tier |-> "normal", created_at |-> now]
      [] t = "resume_project" ->
            [project_id |-> NONE, user_id |-> NONE,
             template_style |-> "classic", created_at |-> now]
      [] t = "experience" ->
            [experience_id |-> NONE, project_id |-> NONE, start_date |-> NONE,
             end_date |-> NONE, verification_status |-> "not_requested",
             created_at |-> now]
      [] t = "verification_request" ->
            [request_id |-> NONE, experience_id |-> NONE,
             verification_token |-> NONE, status |-> "pending",
             verifier_comment |-> NULL, requested_at |-> now,
             responded_at |-> NONE, expires_at |-> VerificationExpiry(now)]
      [] t = "share_link" ->
            [share_id |-> NONE, project_id |-> NONE, share_token |-> NONE,
             recipient_email |-> NULL, access_type |-> "view", view_count |-> 0,
             created_at |-> now, expires_at |-> NONE]
      [] t = "session" ->
            [session_id |-> NONE, user_id |-> NONE, token |-> NONE,
             created_at |-> now, expires_at |-> SessionExpiry(now)]
      [] t = "template" ->
            [template_id |-> NONE, template_name |-> NULL, s3_path |-> NULL,
             created_at |-> now]

TextCols ==
    {"email", "username", "tier", "template_style", "verification_status",
     "status", "verifier_comment", "recipient_email", "access_type",
     "template_name", "s3_path"}

IsNull(c, v) == IF c \in TextCols THEN v = NULL ELSE v = NONE

Max(S) == CHOOSE x \in S : \A y \in S : y <= x

\* autoincrement primary key: one more than the largest key of the table
NextId(rows, t) == Max({r[Pk(t)] : r \in rows} \cup {0}) + 1

\* The row an INSERT of the keyword arguments r stores: columns the caller
\* left out take their default, the primary key is assigned.
Complete(t, r, id, now) ==
    LET default == Defaults(t, now)
    IN  [c \in Cols(t) |->
            IF c = Pk(t) THEN id
            ELSE IF c \in DOMAIN r THEN r[c]
            ELSE default[c]]

(***************************************************************************)
(* Constraints.                                                            *)
(***************************************************************************)
check_user_tier(r) == r.tier \in {"normal", "premium"}

check_template_style(r) == r.template_style \in {"classic", "modern", "minimal"}

check_verification_status(r) ==
    r.verification_status \in {"not_requested", "pending", "verified", "rejected"}

\* (mutant) the end of a position must fall after its start
check_date_range_strict(r) == (r.end_date = NONE) \/ (r.end_date > r.start_date)

check_date_range(r) == (r.end_date = NONE) \/ (r.end_date >= r.start_date)

\* (mutant) the status list of Experience pasted into VerificationRequest
check_request_status_pasted(r) ==
    r.status \in {"not_requested", "pending", "verified", "rejected"}

check_request_status(r) == r.status \in {"pending", "verified", "rejected", "expired"}

check_access_type(r) == r.access_type \in {"view", "edit"}

\* the name of the first CHECK constraint of table t that row r breaks
CheckViolation(t, r) ==
    CASE t = "user" /\ ~check_user_tier(r) -> "check_user_tier"
      [] t = "resume_project" /\ ~check_template_style(r) -> "check_template_style"
      [] t = "experience" /\ ~check_verification_status(r) -> "check_verification_status"
      [] t = "experience" /\ check_verification_status(r) /\ ~check_date_range(r) ->
            "check_date_range"
      [] t = "verification_request" /\ ~check_request_status(r) -> "check_request_status"
      [] t = "share_link" /\ ~check_access_type(r) -> "check_access_type"
      [] OTHER -> "none"

NotNullOk(t, r) == \A c \in Cols(t) \ Nullable(t) : ~IsNull(c, r[c])

\* (mutant) uniqueness is looked at for new rows only
UniqueOkNewRows(t, r, rows) ==
    \/ \E o \in rows : o[Pk(t)] = r[Pk(t)]
    \/ \A c \in UniqueCols(t) : \A o \in rows : o[c] # r[c]

\* no other row of the table holds r's value in a unique column
UniqueOk(t, r, rows) ==
    \A c \in UniqueCols(t) :
        \A o \in rows : o[Pk(t)] # r[Pk(t)] => o[c] # r[c]

\* every foreign key of r names a row of its parent table
ForeignKeyOk(t, r, d) ==
    \A fk \in ForeignKeys(t) :
        \E p \in d[fk.parent] : p[Pk(fk.parent)] = r[fk.col]

\* The error the database raises for writing row r into table t of d, or "none".
Violation(t, r, d) ==
    LET check == CheckViolation(t, r)
    IN  IF ~NotNullOk(t, r) THEN "not_null"
        ELSE IF check # "none" THEN check
        ELSE IF ~UniqueOk(t, r, d[t]) THEN "unique"
        ELSE IF ~ForeignKeyOk(t, r, d) THEN "foreign_key"
        ELSE "none"

(***************************************************************************)
(* populate_database.py: the sample rows, as the keyword arguments of each *)
(* constructor.  `now` is datetime.utcnow() when the batch is built.       *)
(***************************************************************************)
Range(s) == {s[i] : i \in 1..Len(s)}

\* (mutant) a token generator that returns the same value on every call
generate_token_fixed(used) == 1

\* secrets.token_urlsafe(32): 256 random bits, taken as a value no row holds yet
generate_token(used) == Max(used \cup {0}) + 1

RECURSIVE GenerateTokens(_, _)
GenerateTokens(used, n) ==
    IF n = 0 THEN <<>>
    ELSE LET rest == GenerateTokens(used, n - 1)
         IN  Append(rest, generate_token(used \cup Range(rest)))

\* (mutant) the first user is entered with the normal tier
UserRowsNormal(now) ==
    << [email |-> "john.doe@email.com", username |-> "johndoe",
        tier |-> "normal", created_at |-> now - Days(90)],
       [email |-> "jane.smith@email.com", username |-> "janesmith",
        tier |-> "normal", created_at |-> now - Days(60)],
       [email |-> "alex.johnson@email.com", username |-> "alexj",
        tier |-> "normal", created_at |-> now - Days(30)] >>

\* (mutant) the third user signed up 20 days ago, after their project was created
UserRowsLate(now) ==
    << [email |-> "john.doe@email.com", username |-> "johndoe",
        tier |-> "premium", created_at |-> now - Days(90)],
       [email |-> "jane.smith@email.com", username |-> "janesmith",
        tier |-> "normal", created_at |-> now - Days(60)],
       [email |-> "alex.johnson@email.com", username |-> "alexj",
        tier |-> "normal", created_at |-> now - Days(20)] >>

UserRows(now) ==
    << [email |-> "john.doe@email.com", username |-> "johndoe",
        tier |-> "premium", created_at |-> now - Days(90)],
       [email |-> "jane.smith@email.com", username |-> "janesmith",
        tier |-> "normal", created_at |-> now - Days(60)],
       [email |-> "alex.johnson@email.com", username |-> "alexj",
        tier |-> "normal", created_at |-> now - Days(30)] >>

\* (mutant) each project is given the key after its owner's
ProjectRowsShifted(now, user) ==
    << [user_id |-> user[1] + 1, created_at |-> now - Days(80)],
       [user_id |-> user[1] + 1, template_style |-> "classic", created_at |-> now - Days(40)],
       [user_id |-> user[2] + 1, template_style |-> "minimal", created_at |-> now - Days(50)],
       [user_id |-> user[3] + 1, template_style |-> "modern", created_at |-> now - Days(25)] >>

\* user = <<user1.user_id, user2.user_id, user3.user_id>>
ProjectRows(now, user) ==
    << [user_id |-> user[1], created_at |-> now - Days(80)],
       [user_id |-> user[1], template_style |-> "classic", created_at |-> now - Days(40)],
       [user_id |-> user[2], template_style |-> "minimal", created_at |-> now - Days(50)],
       [user_id |-> user[3], template_style |-> "modern", created_at |-> now - Days(25)] >>

\* (mutant) exp3 is entered as verified, like the two before it
ExperienceRowsVerified(now, project) ==
    << [project_id |-> project[1], start_date |-> 20200115, end_date |-> NONE,
        verification_status |-> "verified", created_at |-> now - Days(75)],
       [project_id |-> project[1], start_date |-> 20170601, end_date |-> 20191231,
        verification_status |-> "verified", created_at |-> now - Days(75)],
       [project_id |-> project[1], start_date |-> 20150701, end_date |-> 20170531,
        verification_status |-> "verified", created_at |-> now - Days(75)],
       [project_id |-> project[2], start_date |-> 20210301, end_date |-> NONE,
        verification_status |-> "not_requested", created_at |-> now - Days(35)],
       [project_id |-> project[3], start_date |-> 20190101, end_date |-> 20240630,
        verification_status |-> "verified", created_at |-> now - Days(45)],
       [project_id |-> project[3], start_date |-> 20160801, end_date |-> 20181231,
        verification_status |-> "rejected", created_at |-> now - Days(45)],
       [project_id |-> project[4], start_date |-> 20220115, end_date |-> NONE,
        verification_status |-> "verified", created_at |-> now - Days(20)],
       [project_id |-> project[4], start_date |-> 20190901, end_date |-> 20211231,
        verification_status |-> "pending", created_at |-> now - Days(20)] >>

\* project = <<project1.project_id, .., project4.project_id>>
ExperienceRows(now, project) ==
    << [project_id |-> project[1], start_date |-> 20200115, end_date |-> NONE,
        verification_status |-> "verified", created_at |-> now - Days(75)],
       [project_id |-> project[1], start_date |-> 20170601, end_date |-> 20191231,
        verification_status |-> "verified", created_at |-> now - Days(75)],
       [project_id |-> project[1], start_date |-> 20150701, end_date |-> 20170531,
        verification_status |-> "pending", created_at |-> now - Days(75)],
       [project_id |-> project[2], start_date |-> 20210301, end_date |-> NONE,
        verification_status |-> "not_requested", created_at |-> now - Days(35)],
       [project_id |-> project[3], start_date |-> 20190101, end_date |-> 20240630,
        verification_status |-> "verified", created_at |-> now - Days(45)],
       [project_id |-> project[3], start_date |-> 20160801, end_date |-> 20181231,
        verification_status |-> "rejected", created_at |-> now - Days(45)],
       [project_id |-> project[4], start_date |-> 20220115, end_date |-> NONE,
        verification_status |-> "verified", created_at |-> now - Days(20)],
       [project_id |-> project[4], start_date |-> 20190901, end_date |-> 20211231,
        verification_status |-> "pending", created_at |-> now - Days(20)] >>

\* (mutant) the request on exp6 is entered as verified, like the one before it
RequestRowsNoRejected(now, exp, tok) ==
    << [experience_id |-> exp[1], verification_token |-> tok[1], status |-> "verified",
        verifier_comment |-> "text", requested_at |-> now - Days(60),
        responded_at |-> now - Days(55), expires_at |-> now + Days(30)],
       [experience_id |-> exp[2], verification_token |-> tok[2], status |-> "verified",
        verifier_comment |-> "text", requested_at |-> now - Days(70),
        responded_at |-> now - Days(65), expires_at |-> now + Days(30)],
       [experience_id |-> exp[3], verification_token |-> tok[3], status |-> "pending",
        verifier_comment |-> NULL, requested_at |-> now - Days(10),
        responded_at |-> NONE, expires_at |-> now + Days(20)],
       [experience_id |-> exp[5], verification_token |-> tok[4], status |-> "verified",
        verifier_comment |-> "text", requested_at |-> now - Days(40),
        responded_at |-> now - Days(35), expires_at |-> now + Days(30)],
       [experience_id |-> exp[6], verification_token |-> tok[5], status |-> "verified",
        verifier_comment |-> "text", requested_at |-> now - Days(42),
        responded_at |-> now - Days(38), expires_at |-> now + Days(30)],
       [experience_id |-> exp[7], verification_token |-> tok[6], status |-> "verified",
        verifier_comment |-> "text", requested_at |-> now - Days(15),
        responded_at |-> now - Days(12), expires_at |-> now + Days(30)],
       [experience_id |-> exp[8], verification_token |-> tok[7], status |-> "pending",
        verifier_comment |-> NULL, requested_at |-> now - Days(5),
        responded_at |-> NONE, expires_at |-> now + Days(25)],
       [experience_id |-> exp[3], verification_token |-> tok[8], status |-> "pending",
        verifier_comment |-> NULL, requested_at |-> now - Days(8),
        responded_at |-> NONE, expires_at |-> now + Days(22)] >>

\* (mutant) the rejected request is given no response timestamp
RequestRowsUnanswered(now, exp, tok) ==
    << [experience_id |-> exp[1], verification_token |-> tok[1], status |-> "verified",
        verifier_comment |-> "text", requested_at |-> now - Days(60),
        responded_at |-> now - Days(55), expires_at |-> now + Days(30)],
       [experience_id |-> exp[2], verification_token |-> tok[2], status |-> "verified",
        verifier_comment |-> "text", requested_at |-> now - Days(70),
        responded_at |-> now - Days(65), expires_at |-> now + Days(30)],
       [experience_id |-> exp[3], verification_token |-> tok[3], status |-> "pending",
        verifier_comment |-> NULL, requested_at |-> now - Days(10),
        responded_at |-> NONE, expires_at |-> now + Days(20)],
       [experience_id |-> exp[5], verification_token |-> tok[4], status |-> "verified",
        verifier_comment |-> "text", requested_at |-> now - Days(40),
        responded_at |-> now - Days(35), expires_at |-> now + Days(30)],
       [experience_id |-> exp[6], verification_token |-> tok[5], status |-> "rejected",
        verifier_comment |-> "text", requested_at |-> now - Days(42),
        responded_at |-> NONE, expires_at |-> now + Days(30)],
       [experience_id |-> exp[7], verification_token |-> tok[6], status |-> "verified",
        verifier_comment |-> "text", requested_at |-> now - Days(15),
        responded_at |-> now - Days(12), expires_at |-> now + Days(30)],
       [experience_id |-> exp[8], verification_token |-> tok[7], status |-> "pending",
        verifier_comment |-> NULL, requested_at |-> now - Days(5),
        responded_at |-> NONE, expires_at |-> now + Days(25)],
       [experience_id |-> exp[3], verification_token |-> tok[8], status |-> "pending",
        verifier_comment |-> NULL, requested_at |-> now - Days(8),
        responded_at |-> NONE, expires_at |-> now + Days(22)] >>

\* exp = <<exp1.experience_id, .., exp8.experience_id>>, tok = eight generate_token() results
RequestRows(now, exp, tok) ==
    << [experience_id |-> exp[1], verification_token |-> tok[1], status |-> "verified",
        verifier_comment |-> "text", requested_at |-> now - Days(60),
        responded_at |-> now - Days(55), expires_at |-> now + Days(30)],
       [experience_id |-> exp[2], verification_token |-> tok[2], status |-> "verified",
        verifier_comment |-> "text", requested_at |-> now - Days(70),
        responded_at |-> now - Days(65), expires_at |-> now + Days(30)],
       [experience_id |-> exp[3], verification_token |-> tok[3], status |-> "pending",
        verifier_comment |-> NULL, requested_at |-> now - Days(10),
        responded_at |-> NONE, expires_at |-> now + Days(20)],
       [experience_id |-> exp[5], verification_token |-> tok[4], status |-> "verified",
        verifier_comment |-> "text", requested_at |-> now - Days(40),
        responded_at |-> now - Days(35), expires_at |-> now + Days(30)],
       [experience_id |-> exp[6], verification_token |-> tok[5], status |-> "rejected",
        verifier_comment |-> "text", requested_at |-> now - Days(42),
        responded_at |-> now - Days(38), expires_at |-> now + Days(30)],
       [experience_id |-> exp[7], verification_token |-> tok[6], status |-> "verified",
        verifier_comment |-> "text", requested_at |-> now - Days(15),
        responded_at |-> now - Days(12), expires_at |-> now + Days(30)],
       [experience_id |-> exp[8], verification_token |-> tok[7], status |-> "pending",
        verifier_comment |-> NULL, requested_at |-> now - Days(5),
        responded_at |-> NONE, expires_at |-> now + Days(25)],
       [experience_id |-> exp[3], verification_token |-> tok[8], status |-> "pending",
        verifier_comment |-> NULL, requested_at |-> now - Days(8),
        responded_at |-> NONE, expires_at |-> now + Days(22)] >>

ShareLinkRows(now, project, tok) ==
    << [project_id |-> project[1], share_token |-> tok[1],
        recipient_email |-> "recruiter@bigtech.com", access_type |-> "view",
        view_count |-> 5, created_at |-> now - Days(30), expires_at |-> now + Days(60)],
       [project_id |-> project[1], share_token |-> tok[2],
        recipient_email |-> "mentor@career.com", access_type |-> "edit",
        view_count |-> 2, created_at |-> now - Days(20), expires_at |-> NONE],
       [project_id |-> project[2], share_token |-> tok[3],
        recipient_email |-> "pm.hiring@company.com", access_type |-> "view",
        view_count |-> 1, created_at |-> now - Days(10), expires_at |-> now + Days(30)],
       [project_id |-> project[3], share_token |-> tok[4],
        recipient_email |-> NULL, access_type |-> "view",
        view_count |-> 12, created_at |-> now - Days(45), expires_at |-> NONE],
       [project_id |-> project[4], share_token |-> tok[5],
        recipient_email |-> "data.recruiter@analytics.com", access_type |-> "view",
        view_count |-> 3, created_at |-> now - Days(5), expires_at |-> now + Days(45)] >>

SessionRows(now, user, tok) ==
    << [user_id |-> user[1], token |-> tok[1],
        created_at |-> now - Hours(2), expires_at |-> now + Days(7)],
       [user_id |-> user[1], token |-> tok[2],
        created_at |-> now - Days(1), expires_at |-> now + Days(6)],
       [user_id |-> user[2], token |-> tok[3],
        created_at |-> now - Hours(5), expires_at |-> now + Days(7)],
       [user_id |-> user[3], token |-> tok[4],
        created_at |-> now - 30, expires_at |-> now + Days(7)] >>

(***************************************************************************)
(* The ORM session: add_all(rows) followed by commit().  The flush INSERTs *)
(* the rows in the order they were added and stops at the first error.     *)
(* fault = 0: no fault; fault = k in 1..Len(rows): the k-th INSERT raises  *)
(* (connection lost, disk full, ...); fault = Len(rows)+1: COMMIT raises.  *)
(* The result holds the rows as the open transaction sees them.            *)
(***************************************************************************)
RECURSIVE Flush(_, _, _, _, _, _, _)
Flush(d, t, rows, i, now, fault, acc) ==
    IF i > Len(rows)
    THEN [db |-> d, ids |-> acc,
          err |-> IF fault = Len(rows) + 1 THEN "operational" ELSE "none"]
    ELSE IF fault = i THEN [db |-> d, ids |-> acc, err |-> "operational"]
    ELSE LET r == Complete(t, rows[i], NextId(d[t], t), now)
             v == Violation(t, r, d)
         IN  IF v # "none" THEN [db |-> d, ids |-> acc, err |-> v]
             ELSE Flush([d EXCEPT ![t] = @ \cup {r}], t, rows, i + 1, now, fault,
                        Append(acc, r[Pk(t)]))

\* (mutant) the handler undoes the whole run, the batches committed before too
RollbackAll(committed, pending) == db0

\* (mutant) the handler commits what the open transaction holds
RollbackKeeps(committed, pending) ==
    [t \in DOMAIN committed |-> committed[t] \cup pending[t]]

\* db_session.rollback(): the rows the database keeps when the open transaction is undone
Rollback(committed, pending) == committed

NoError == [kind |-> "none", at |-> "none"]
NoIds == [user |-> <<>>, resume_project |-> <<>>, experience |-> <<>>]
NoResult ==
    [op |-> "none", table |-> "none", args |-> {}, row |-> <<>>, err |-> "none",
     status |-> "none", rows |-> 0]

Init ==
    /\ tables = {}
    /\ db = EmptyDb
    /\ clock = Epoch
    /\ pc = "idle"
    /\ txn = EmptyDb
    /\ ids = NoIds
    /\ db_session = "none"
    /\ outcome = "none"
    /\ error = NoError
    /\ db0 = EmptyDb
    /\ hist = [last |-> "none", prev |-> "none", failed_at |-> "none"]
    /\ result = NoResult
    /\ focus = "none"

\* time passes between two statements
Tick ==
    /\ clock < Epoch + MaxTick
    /\ clock' = clock + 1
    /\ UNCHANGED <<tables, db, pc, txn, ids, db_session, outcome, error, db0, hist, result, focus>>

(***************************************************************************)
(* setup_database(): Base.metadata.drop_all(engine), then create_all.      *)
(***************************************************************************)
\* (mutant) drop_all skipped: the tables are kept as they are
DropNothing(ts) == ts

DropAll(ts) == ts \ MetadataTables

CreateAll(ts) == ts \cup MetadataTables

SetupDropAll ==
    /\ pc = "idle"
    /\ tables' = DropAll(tables)
    /\ db' = [t \in MetadataTables |-> IF t \in DropAll(tables) THEN db[t] ELSE {}]
    /\ pc' = "create_all"
    /\ UNCHANGED <<clock, txn, ids, db_session, outcome, error, db0, hist, result, focus>>

SetupCreateAll ==
    /\ pc = "create_all"
    /\ tables' = CreateAll(tables)
    /\ pc' = "idle"
    /\ hist' = [hist EXCEPT !.last = "setup"]
    /\ UNCHANGED <<db, clock, txn, ids, db_session, outcome, error, db0, result, focus>>

(***************************************************************************)
(* populate_database().                                                    *)
(***************************************************************************)
PopulateStart ==
    /\ pc = "idle"
    /\ pc' = "users"
    /\ db_session' = "open"
    /\ outcome' = "running"
    /\ error' = NoError
    /\ ids' = NoIds
    /\ db0' = db
    /\ hist' = [hist EXCEPT !.prev = hist.last,
                            !.failed_at = IF hist.last = "populate_failed" THEN error.at
                                          ELSE "none"]
    /\ UNCHANGED <<tables, db, clock, txn, result, focus>>

\* One batch: build the rows, add_all, commit.  On success the rows are
\* committed and the run moves on; on an error the rows INSERTed so far stay
\* in the open transaction and control passes to the except clause.
Batch(t, rows, next) ==
    \E fault \in 0..(Len(rows) + 1) :
        LET f == IF t \in tables
                 THEN Flush(db, t, rows, 1, clock, fault, <<>>)
                 ELSE [db |-> db, ids |-> <<>>, err |-> "no_such_table"]
        IN  IF f.err = "none"
            THEN /\ db' = f.db
                 /\ txn' = EmptyDb
                 /\ ids' = IF t \in DOMAIN ids THEN [ids EXCEPT ![t] = f.ids] ELSE ids
                 /\ pc' = next
                 /\ error' = error
            ELSE /\ db' = db
                 /\ txn' = [EmptyDb EXCEPT ![t] = f.db[t] \ db[t]]
                 /\ ids' = ids
                 /\ pc' = "except"
                 /\ error' = [kind |-> f.err, at |-> pc]

TokensOf(d, t, c) == {r[c] : r \in d[t]}

CreateUsers ==
    /\ pc = "users"
    /\ Batch("user", UserRows(clock), "projects")
    /\ UNCHANGED <<tables, clock, db_session, outcome, db0, hist, result, focus>>

CreateProjects ==
    /\ pc = "projects"
    /\ Batch("resume_project", ProjectRows(clock, ids.user), "experiences")
    /\ UNCHANGED <<tables, clock, db_session, outcome, db0, hist, result, focus>>

CreateExperiences ==
    /\ pc = "experiences"
    /\ Batch("experience", ExperienceRows(clock, ids.resume_project), "requests")
    /\ UNCHANGED <<tables, clock, db_session, outcome, db0, hist, result, focus>>

CreateRequests ==
    /\ pc = "requests"
    /\ Batch("verification_request",
             RequestRows(clock, ids.experience,
                 GenerateTokens(TokensOf(db, "verification_request", "verification_token"), 8)),
             "links")
    /\ UNCHANGED <<tables, clock, db_session, outcome, db0, hist, result, focus>>

CreateShareLinks ==
    /\ pc = "links"
    /\ Batch("share_link",
             ShareLinkRows(clock, ids.resume_project,
                 GenerateTokens(TokensOf(db, "share_link", "share_token"), 5)),
             "sessions")
    /\ UNCHANGED <<tables, clock, db_session, outcome, db0, hist, result, focus>>

CreateSessions ==
    /\ pc = "sessions"
    /\ Batch("session",
             SessionRows(clock, ids.user, GenerateTokens(TokensOf(db, "session", "token"), 4)),
             "finally")
    /\ UNCHANGED <<tables, clock, db_session, outcome, db0, hist, result, focus>>

\* except Exception: db_session.rollback(); raise
Except ==
    /\ pc = "except"
    /\ db' = Rollback(db, txn)
    /\ txn' = EmptyDb
    /\ pc' = "finally"
    /\ UNCHANGED <<tables, clock, ids, db_session, outcome, error, db0, hist, result, focus>>

\* finally: db_session.close(); the call then returns, or the error propagates
Finally ==
    /\ pc = "finally"
    /\ db_session' = "closed"
    /\ pc' = "idle"
    /\ outcome' = IF error.kind = "none" THEN "returned" ELSE "raised"
    /\ hist' = [hist EXCEPT !.last = IF error.kind = "none" THEN "populate_ok"
                                     ELSE "populate_failed"]
    /\ UNCHANGED <<tables, db, clock, txn, ids, error, db0, result, focus>>

Setup == SetupDropAll \/ SetupCreateAll

Populate ==
    \/ PopulateStart
    \/ CreateUsers
    \/ CreateProjects
    \/ CreateExperiences
    \/ CreateRequests
    \/ CreateShareLinks
    \/ CreateSessions
    \/ Except
    \/ Finally

Next == Tick \/ Setup \/ Populate

Spec == Init /\ [][Next]_vars

(***************************************************************************)
(* Single-row writes against the schema, as an application using models.py *)
(* issues them through the ORM: session.add of a new object, an attribute  *)
(* assignment, session.delete(obj), each followed by commit().  A write    *)
(* that breaks a constraint raises and is rolled back.                     *)
(***************************************************************************)
Without(rows, t, keys) == {r \in rows : r[Pk(t)] \notin keys}

KeysOf(rows, t) == {r[Pk(t)] : r \in rows}

\* Experience.verification_requests, cascade='all, delete-orphan'
DeleteExperiences(d, keys) ==
    LET requests == {r \in d["verification_request"] : r.experience_id \in keys}
    IN  [d EXCEPT !["experience"] = Without(@, "experience", keys),
                  !["verification_request"] = @ \ requests]

\* (mutant) the cascade stops at the project: its experiences are kept
DeleteProjectsAlone(d, keys) ==
    LET links == {r \in d["share_link"] : r.project_id \in keys}
    IN  [d EXCEPT !["resume_project"] = Without(@, "resume_project", keys),
                  !["share_link"] = @ \ links]

\* ResumeProject.experiences and ResumeProject.share_links, cascade='all, delete-orphan'
DeleteProjects(d, keys) ==
    LET experiences == {r \in d["experience"] : r.project_id \in keys}
        links == {r \in d["share_link"] : r.project_id \in keys}
        e == DeleteExperiences(d, KeysOf(experiences, "experience"))
    IN  [e EXCEPT !["resume_project"] = Without(@, "resume_project", keys),
                  !["share_link"] = @ \ links]

\* User.projects and User.sessions, cascade='all, delete-orphan'
DeleteUsers(d, keys) ==
    LET projects == {r \in d["resume_project"] : r.user_id \in keys}
        sessions == {r \in d["session"] : r.user_id \in keys}
        e == DeleteProjects(d, KeysOf(projects, "resume_project"))
    IN  [e EXCEPT !["user"] = Without(@, "user", keys),
                  !["session"] = @ \ sessions]

\* the database after the rows `keys` of table t are deleted
DeleteRows(d, t, keys) ==
    CASE t = "user" -> DeleteUsers(d, keys)
      [] t = "resume_project" -> DeleteProjects(d, keys)
      [] t = "experience" -> DeleteExperiences(d, keys)
      [] OTHER -> [d EXCEPT ![t] = Without(@, t, keys)]

\* values a caller may pass for a column: legal ones, one outside every
\* enumeration, keys of existing parents and one key no parent has
Emails == {"john.doe@email.com", "jane.smith@email.com"}
Usernames == {"johndoe", "janesmith"}
TokenValues == {1, 2}
ParentKeys(d, t) == KeysOf(d[t], t) \cup {NextId(d[t], t)}

ColumnValues(d, t, c) ==
    CASE c = "email" -> Emails
      [] c = "username" -> Usernames
      [] c = "tier" -> {"premium", "gold"}
      [] c = "template_style" -> {"modern", "fancy"}
      [] c = "verification_status" -> {"verified", "expired"}
      [] c = "status" -> {"expired", "not_requested"}
      [] c = "access_type" -> {"edit", "admin"}
      [] c = "start_date" -> {20200115}
      [] c = "end_date" -> {20191231, 20200115}
      [] c \in {"verification_token", "share_token", "token"} -> TokenValues
      [] c = "s3_path" -> {"s3://templates/classic", "s3://templates/modern"}
      [] c = "template_name" -> {"Classic"}
      [] c = "user_id" -> ParentKeys(d, "user")
      [] c = "project_id" -> ParentKeys(d, "resume_project")
      [] c = "experience_id" -> ParentKeys(d, "experience")
      [] c \in {"created_at", "requested_at"} -> {clock - Days(10)}
      [] c = "expires_at" -> {clock + Days(20)}
      [] OTHER -> {}

\* columns the caller must pass, and columns the caller may leave to their default
Required(t) ==
    CASE t = "user" -> {"email", "username"}
      [] t = "resume_project" -> {"user_id"}
      [] t = "experience" -> {"project_id", "start_date"}
      [] t = "verification_request" -> {"experience_id", "verification_token"}
      [] t = "share_link" -> {"project_id", "share_token"}
      [] t = "session" -> {"user_id", "token"}
      [] t = "template" -> {"template_name", "s3_path"}

Optional(t) ==
    CASE t = "user" -> {"tier"}
      [] t = "resume_project" -> {"template_style"}
      [] t = "experience" -> {"end_date", "verification_status"}
      [] t = "verification_request" -> {"status", "requested_at", "expires_at"}
      [] t = "share_link" -> {"access_type"}
      [] t = "session" -> {"created_at", "expires_at"}
      [] t = "template" -> {}

RECURSIVE Sum(_, _)
Sum(f, S) ==
    IF S = {} THEN 0 ELSE LET x == CHOOSE y \in S : TRUE IN f[x] + Sum(f, S \ {x})

\* the number of rows in the database
Rows(d) == Sum([t \in MetadataTables |-> Cardinality(d[t])], MetadataTables)

\* the tables above t in the ownership chain
RECURSIVE Ancestors(_)
Ancestors(t) ==
    UNION {{fk.parent} \cup Ancestors(fk.parent) : fk \in ForeignKeys(t)}

\* The application works on one table, `focus`: there it passes every
\* combination of column values and keeps up to MaxRows rows.  The tables
\* above and below it in the ownership chain supply parents and children:
\* one row each, built from the required columns alone with one value each.
ArgColumns(t) == IF t = focus THEN SUBSET Optional(t) ELSE {{}}

ArgValues(d, t, c) ==
    IF t = focus THEN ColumnValues(d, t, c)
    ELSE IF c \in {fk.col : fk \in ForeignKeys(t)}
         THEN UNION {KeysOf(d[fk.parent], fk.parent) : fk \in ForeignKeys(t)}
    ELSE {CHOOSE v \in ColumnValues(d, t, c) : TRUE}

MayInsert(t) ==
    /\ NextId(db[t], t) <= MaxKey
    /\ IF t = focus THEN Cardinality(db[t]) < MaxRows
       ELSE /\ t \in Ancestors(focus) \/ focus \in Ancestors(t)
            /\ db[t] = {}

\* the keyword arguments a caller may pass for the columns cols of table t
RECURSIVE Kwargs(_, _, _)
Kwargs(d, t, cols) ==
    IF cols = {} THEN {<<>>}
    ELSE LET c == CHOOSE x \in cols : TRUE
         IN  {(c :> v) @@ r : v \in ArgValues(d, t, c), r \in Kwargs(d, t, cols \ {c})}

\* the error of a rejected write names the constraint, as the driver's message does
\* args: the columns the caller passed; row: the row the statement carried;
\* rows: how many rows the statement changed
Wrote(op, t, args, row, err, n) ==
    result' = [op |-> op, table |-> t, args |-> args, row |-> row, err |-> err,
               status |-> IF err = "none" THEN "ok" ELSE "rejected",
               rows |-> IF err = "none" THEN n ELSE 0]

Insert ==
    /\ pc = "idle"
    /\ \E t \in {x \in tables : MayInsert(x)} :
         \E opt \in ArgColumns(t) :
           \E r \in Kwargs(db, t, Required(t) \cup opt) :
             LET row == Complete(t, r, NextId(db[t], t), clock)
                 err == Violation(t, row, db)
             IN  /\ db' = IF err = "none" THEN [db EXCEPT ![t] = @ \cup {row}] ELSE db
                 /\ Wrote("insert", t, DOMAIN r, row, err, 1)
    /\ UNCHANGED <<tables, clock, pc, txn, ids, db_session, outcome, error, db0, hist, focus>>

Update ==
    /\ pc = "idle"
    /\ \E t \in tables \cap {focus} :
         \E old \in db[t] :
           \E c \in Required(t) \cup Optional(t) :
             \E v \in ColumnValues(db, t, c) :
               LET row == [old EXCEPT ![c] = v]
                   err == Violation(t, row, db)
               IN  /\ db' = IF err = "none" THEN [db EXCEPT ![t] = (@ \ {old}) \cup {row}]
                            ELSE db
                   /\ Wrote("update", t, {c}, row, err, 1)
    /\ UNCHANGED <<tables, clock, pc, txn, ids, db_session, outcome, error, db0, hist, focus>>

Delete ==
    /\ pc = "idle"
    /\ \E t \in tables :
         \E old \in db[t] :
           LET kept == DeleteRows(db, t, {old[Pk(t)]})
           IN  /\ db' = kept
               /\ Wrote("delete", t, {}, old, "none", Rows(db) - Rows(kept))
    /\ UNCHANGED <<tables, clock, pc, txn, ids, db_session, outcome, error, db0, hist, focus>>

\* the schema as setup_database leaves it
InitSchema ==
    /\ tables = MetadataTables
    /\ db = EmptyDb
    /\ clock = Epoch
    /\ pc = "idle"
    /\ txn = EmptyDb
    /\ ids = NoIds
    /\ db_session = "none"
    /\ outcome = "none"
    /\ error = NoError
    /\ db0 = EmptyDb
    /\ hist = [last |-> "setup", prev |-> "none", failed_at |-> "none"]
    /\ result = NoResult
    /\ focus \in MetadataTables

NextSchema == Insert \/ Update \/ Delete

SpecSchema == InitSchema /\ [][NextSchema]_vars

(***************************************************************************)
(* Properties of the two scripts (specification Spec).                     *)
(***************************************************************************)
Counts(d) == [t \in MetadataTables |-> Cardinality(d[t])]

SampleCounts ==
    [user |-> 3, resume_project |-> 4, experience |-> 8, verification_request |-> 8,
     share_link |-> 5, session |-> 4, template |-> 0]

\* a populate_database call has ended and nothing has run since
RunEnded == pc = "idle" /\ hist.last \in {"populate_ok", "populate_failed"}

\* the run added the whole sample dataset to what was there
CompleteDataset ==
    \A t \in MetadataTables : Cardinality(db[t] \ db0[t]) = SampleCounts[t]

\* C1: populate_database is all-or-nothing: once a run has ended the database
\* holds the complete sample dataset or is identical to its state before the run.
C1_AllOrNothing == RunEnded => (db = db0 \/ CompleteDataset)

\* C2: a run without a fault on a database setup_database has just created
\* returns normally and leaves exactly 3 users, 4 projects, 8 experiences,
\* 8 verification requests, 5 share links, 4 sessions and no template.
C2_FreshCounts ==
    (RunEnded /\ hist.prev = "setup" /\ error.kind # "operational")
        => (outcome = "returned" /\ Counts(db) = SampleCounts)

C2_Witness ==
    RunEnded /\ hist.prev = "setup" /\ outcome = "returned" /\ Counts(db) = SampleCounts

\* C3: a second run on the database a first successful run populated, with no
\* setup in between, raises at the user batch, on a uniqueness violation unless
\* a fault hit first, and leaves every table with the rows it had.
C3_SecondRunFails ==
    (RunEnded /\ hist.prev = "populate_ok")
        => /\ outcome = "raised"
           /\ error.at = "users"
           /\ error.kind \in {"unique", "operational"}
           /\ db = db0
           /\ Counts(db) = Counts(db0)

C3_Witness ==
    /\ RunEnded
    /\ hist.prev = "populate_ok"
    /\ error = [kind |-> "unique", at |-> "users"]
    /\ Counts(db) = SampleCounts

\* C6: whatever the database held, a finished setup_database run leaves all
\* seven tables existing and empty; so does a second run right after it.
C6_SetupResets ==
    (pc = "idle" /\ hist.last = "setup") => (tables = MetadataTables /\ db = EmptyDb)

\* setup has just run on the database a complete populate run had filled
C6_Witness ==
    /\ pc = "idle"
    /\ hist.last = "setup"
    /\ outcome = "returned"
    /\ tables = MetadataTables
    /\ db = EmptyDb

\* every foreign key of every row of d names a row of d
NoOrphans(d) == \A t \in MetadataTables : \A r \in d[t] : ForeignKeyOk(t, r, d)

Union(d, e) == [t \in MetadataTables |-> d[t] \cup e[t]]

\* C10: every row a step commits references a parent that was committed before
\* the step; no state of the run, the open transaction included, holds a child
\* without its parent; and the run never fails on a missing parent.
C10_ParentsFirst ==
    [][/\ \A t \in MetadataTables : \A r \in db'[t] \ db[t] : ForeignKeyOk(t, r, db)
       /\ NoOrphans(Union(db', txn'))
       /\ error'.kind # "foreign_key"]_vars

\* the run has committed children of every level
C10_Witness ==
    /\ pc = "finally"
    /\ error.kind = "none"
    /\ db["verification_request"] # {}
    /\ db["share_link"] # {}
    /\ db["session"] # {}

IsWrite(r) == r.op \in {"insert", "update"}

\* C5: a VerificationRequest inserted without expires_at expires 30 days
\* after its requested_at, a Session 7 days after its created_at, whether
\* that start timestamp was defaulted or passed by the caller.
C5_ExpiryFromStart ==
    (result.op = "insert" /\ result.status = "ok" /\ "expires_at" \notin result.args)
        => /\ result.table = "verification_request"
                => result.row.expires_at = result.row.requested_at + Days(30)
           /\ result.table = "session"
                => result.row.expires_at = result.row.created_at + Days(7)

\* the value of the enumerated column of table t in row r lies outside its set
OutsideEnum(t, r) ==
    CASE t = "user" -> r.tier \notin {"normal", "premium"}
      [] t = "resume_project" -> r.template_style \notin {"classic", "modern", "minimal"}
      [] t = "experience" ->
            r.verification_status \notin {"not_requested", "pending", "verified", "rejected"}
      [] t = "verification_request" ->
            r.status \notin {"pending", "verified", "rejected", "expired"}
      [] t = "share_link" -> r.access_type \notin {"view", "edit"}
      [] OTHER -> FALSE

\* C7: a write that sets an enumerated column outside its set is rejected,
\* a rejected write leaves the database as it was, and no stored row holds a
\* value outside the set of its column.
C7_EnumsClosed ==
    [][/\ \A t \in MetadataTables : \A r \in db'[t] : ~OutsideEnum(t, r)
       /\ (IsWrite(result') /\ OutsideEnum(result'.table, result'.row))
            => result'.status = "rejected"
       /\ result'.status = "rejected" => db' = db]_vars

\* an update to a status outside the set was rejected
C7_Witness ==
    /\ result.op = "update"
    /\ result.table = "verification_request"
    /\ result.err = "check_request_status"
    /\ result.status = "rejected"

EndsBeforeStart(r) == r.end_date # NONE /\ r.end_date < r.start_date

\* C8: no stored Experience ends before it starts; a write that would make one
\* do so is rejected and changes nothing; the date rule rejects nothing else,
\* so an end equal to the start and an absent end pass it.
C8_DateRange ==
    [][/\ \A r \in db'["experience"] : ~EndsBeforeStart(r)
       /\ (IsWrite(result') /\ result'.table = "experience" /\ EndsBeforeStart(result'.row))
            => (result'.status = "rejected" /\ db' = db)
       /\ result'.err = "check_date_range" => EndsBeforeStart(result'.row)]_vars

\* an experience whose end is its start is stored, and a write has just been
\* turned down by the date rule
C8_Witness ==
    /\ result.err = "check_date_range"
    /\ result.status = "rejected"
    /\ \E r \in db["experience"] : r.end_date = r.start_date

\* the columns the claim names
ClaimedUnique ==
    { <<"user", "email">>, <<"user", "username">>,
      <<"verification_request", "verification_token">>,
      <<"share_link", "share_token">>, <<"session", "token">>,
      <<"template", "s3_path">> }

Duplicates(d, t, c) == \E r, o \in d[t] : r # o /\ r[c] = o[c]

\* the row the last write carried repeats a value another row of d holds
Repeats(d, res) ==
    \E tc \in ClaimedUnique :
        /\ tc[1] = res.table
        /\ \E o \in d[res.table] :
              o[Pk(res.table)] # res.row[Pk(res.table)] /\ o[tc[2]] = res.row[tc[2]]

\* C9: no two rows of a table share a value of a unique column; a write that
\* would make two rows share one is rejected and leaves the table unchanged.
C9_Unique ==
    [][/\ \A tc \in ClaimedUnique : ~Duplicates(db', tc[1], tc[2])
       /\ (IsWrite(result') /\ Repeats(db, result'))
            => (result'.status = "rejected" /\ db' = db)]_vars

\* an update that would have repeated a value was rejected
C9_Witness ==
    /\ result.op = "update"
    /\ result.err = "unique"
    /\ result.status = "rejected"
    /\ Cardinality(db[result.table]) = 2

(***************************************************************************)
(* Properties of the sample rows and of the error handling of              *)
(* populate_database (specification Spec).                                 *)
(***************************************************************************)
\* the statuses of the verification requests the run added
RequestStatuses == {r.status : r \in db["verification_request"] \ db0["verification_request"]}

\* C11 (as stated): after a successful run each of the four request statuses
\* pending, verified, rejected and expired is held by at least one
\* verification_request row.
C11_AllStatuses ==
    (RunEnded /\ outcome = "returned")
        => {"pending", "verified", "rejected", "expired"} \subseteq RequestStatuses

\* C11 (amended): after a successful run the sample verification requests
\* hold exactly the three statuses pending, verified and rejected; no row has
\* the status expired.
C11_ThreeStatuses ==
    (RunEnded /\ outcome = "returned")
        => RequestStatuses = {"pending", "verified", "rejected"}

C11_Witness ==
    /\ RunEnded
    /\ outcome = "returned"
    /\ Cardinality(db["verification_request"]) = 8
    /\ \E r \in db["verification_request"] : r.status = "rejected"

\* C12: every sample verification request with status pending has neither a
\* responded_at nor a verifier_comment, and every one with another status has
\* a responded_at.
C12_ResponseOnlyWhenAnswered ==
    \A r \in db["verification_request"] :
        /\ r.status = "pending" => (r.responded_at = NONE /\ r.verifier_comment = NULL)
        /\ r.status # "pending" => r.responded_at # NONE

\* the requests are committed: some pending and unanswered, some answered
C12_Witness ==
    /\ \E r \in db["verification_request"] : r.status = "pending" /\ r.responded_at = NONE
    /\ \E r \in db["verification_request"] : r.status = "rejected" /\ r.responded_at # NONE
    /\ \E r \in db["verification_request"] : r.status = "verified" /\ r.responded_at # NONE

\* the table each batch of the run writes, by the position of the run in it
BatchTable ==
    [users |-> "user", projects |-> "resume_project", experiences |-> "experience",
     requests |-> "verification_request", links |-> "share_link", sessions |-> "session"]

\* C13: when a statement of populate_database raises, the handler undoes the
\* open transaction and keeps none of its rows; the same error then leaves
\* the function, which never returns normally after a failure; the session is
\* closed whether the run failed or not; and no row of the failing batch is
\* persisted.
C13_FailureHandling ==
    [][/\ pc' = "except" => error'.kind # "none"
       /\ pc = "except" => pc' \in {"except", "finally"}
       /\ (pc = "except" /\ pc' = "finally")
            => /\ txn' = EmptyDb
               /\ db' = db
               /\ \A t \in MetadataTables : db'[t] \cap txn[t] = {}
               /\ error' = error
       /\ (pc = "finally" /\ pc' = "idle")
            => /\ db_session' = "closed"
               /\ error' = error
               /\ outcome' = "raised" <=> error.kind # "none"
               /\ outcome' = "returned" <=> error.kind = "none"
               /\ error.kind # "none"
                    => db'[BatchTable[error.at]] = db0[BatchTable[error.at]]]_vars

\* a run that failed in its fourth batch has ended: raised, session closed,
\* the experiences kept and no request stored
C13_Witness ==
    /\ RunEnded
    /\ outcome = "raised"
    /\ error = [kind |-> "operational", at |-> "requests"]
    /\ db_session = "closed"
    /\ txn = EmptyDb
    /\ db["experience"] # {}
    /\ db["verification_request"] = {}

\* the run that has ended was a retry: the script before it was a failed populate_database
RetryEnded == RunEnded /\ hist.prev = "populate_failed"

\* C14 (as stated): after a failed run a retry with no setup_database in
\* between never completes successfully, and a run after setup_database that
\* meets no new fault does.
C14_RetryNeedsSetup ==
    /\ RetryEnded => outcome = "raised"
    /\ (RunEnded /\ hist.prev = "setup" /\ error.kind # "operational")
            => outcome = "returned"

\* C14 (amended): a retry with no setup_database in between fails, at the
\* user batch, whenever the failed run had committed its users (it failed at
\* one of the batches 2..6) or the sample users were stored before; after a
\* failure at the first batch on an empty set-up database nothing was stored
\* and a retry that meets no new fault completes; and a run after
\* setup_database that meets no new fault completes.
C14_RetryAfterCommit ==
    /\ (RetryEnded /\ (hist.failed_at # "users" \/ db0["user"] # {}))
            => /\ outcome = "raised"
               /\ error.at = "users"
               /\ error.kind \in {"unique", "operational"}
    /\ (RetryEnded /\ hist.failed_at # "users") => db0["user"] # {}
    /\ (RetryEnded /\ db0 = EmptyDb /\ tables = MetadataTables
            /\ error.kind # "operational")
            => (hist.failed_at = "users" /\ outcome = "returned")
    /\ (RunEnded /\ hist.prev = "setup" /\ error.kind # "operational")
            => outcome = "returned"

\* a retry of a run that had failed at its third batch has failed on a
\* user that is already stored
C14_Witness ==
    /\ RetryEnded
    /\ hist.failed_at = "experiences"
    /\ outcome = "raised"
    /\ error = [kind |-> "unique", at |-> "users"]

\* the six batches, by the position of the run, in the order of the script
BatchOrder == <<"users", "projects", "experiences", "requests", "links", "sessions">>

Position(at) == CHOOSE i \in 1..Len(BatchOrder) : BatchOrder[i] = at

\* the row counts of the first k batches of the sample dataset
Prefix(k) ==
    [t \in MetadataTables |->
        IF \E i \in 1..k : BatchTable[BatchOrder[i]] = t THEN SampleCounts[t] ELSE 0]

InRun == pc \in Range(BatchOrder) \cup {"except", "finally"}

\* the number of batches the run has gone past without an error
Committed ==
    IF error.kind # "none" THEN Position(error.at) - 1
    ELSE IF pc \in Range(BatchOrder) THEN Position(pc) - 1
    ELSE Len(BatchOrder)

\* C15: the run commits its six batches one by one in the order users,
\* projects, experiences, verification requests, share links, sessions: in
\* every state during or after a run that began on a freshly set-up database
\* the persisted rows are those of the first k batches, k being the number of
\* batches the run has completed; a failure in batch k+1 leaves batches 1..k.
C15_PrefixPersisted ==
    (hist.prev = "setup" /\ (InRun \/ RunEnded))
        => Counts(db) = Prefix(Committed)

\* a run on a fresh database failed at its fifth batch and has ended with
\* the first four batches persisted
C15_Witness ==
    /\ RunEnded
    /\ hist.prev = "setup"
    /\ outcome = "raised"
    /\ error.at = "links"
    /\ Counts(db) = Prefix(4)
    /\ db["verification_request"] # {}
    /\ db["share_link"] = {}

\* the statuses of the verification requests stored for experience e
StatusesOf(e) ==
    {r.status : r \in {q \in db["verification_request"] :
                            q.experience_id = e.experience_id}}

\* C16: once the sample requests are stored, the verification_status of each
\* experience agrees with its requests: not_requested iff it has none,
\* pending iff it has some and all are pending, verified iff one is verified,
\* rejected iff one is rejected and none is verified.
C16_StatusAgrees ==
    db["verification_request"] # {}
        => \A e \in db["experience"] :
              /\ e.verification_status = "not_requested" <=> StatusesOf(e) = {}
              /\ e.verification_status = "pending" <=> StatusesOf(e) = {"pending"}
              /\ e.verification_status = "verified" <=> "verified" \in StatusesOf(e)
              /\ e.verification_status = "rejected"
                    <=> ("rejected" \in StatusesOf(e) /\ "verified" \notin StatusesOf(e))

\* the requests are stored: an experience without any is not_requested, one
\* with two pending requests is pending, one with a rejected request is rejected
C16_Witness ==
    /\ Cardinality(db["verification_request"]) = 8
    /\ \E e \in db["experience"] :
          e.verification_status = "not_requested" /\ StatusesOf(e) = {}
    /\ \E e \in db["experience"] :
          /\ e.verification_status = "pending"
          /\ Cardinality({q \in db["verification_request"] :
                             q.experience_id = e.experience_id}) = 2
    /\ \E e \in db["experience"] :
          e.verification_status = "rejected" /\ StatusesOf(e) = {"rejected"}

\* the rows of table t whose column c holds the key of parent row p of table pt
ChildrenOf(p, pt, t, c) == {r \in db[t] : r[c] = p[Pk(pt)]}

\* no row of table t that column c ties to a row of pt starts before that row was created
NotBeforeParent(pt, t, c, start) ==
    \A p \in db[pt] : \A r \in ChildrenOf(p, pt, t, c) : r[start] >= p.created_at

\* C17: in the stored sample rows no child is created before its parent
\* (project and session after their user, experience and share link after
\* their project, request after its experience); an answered request has
\* requested_at < responded_at < expires_at; and every expires_at that is
\* present is later than the start timestamp of its row.
C17_TimestampOrder ==
    /\ NotBeforeParent("user", "resume_project", "user_id", "created_at")
    /\ NotBeforeParent("resume_project", "experience", "project_id", "created_at")
    /\ NotBeforeParent("experience", "verification_request", "experience_id", "requested_at")
    /\ NotBeforeParent("resume_project", "share_link", "project_id", "created_at")
    /\ NotBeforeParent("user", "session", "user_id", "created_at")
    /\ \A r \in db["verification_request"] :
          /\ r.responded_at # NONE
                => (r.requested_at < r.responded_at /\ r.responded_at < r.expires_at)
          /\ r.expires_at # NONE => r.requested_at < r.expires_at
    /\ \A r \in db["share_link"] : r.expires_at # NONE => r.created_at < r.expires_at
    /\ \A r \in db["session"] : r.expires_at # NONE => r.created_at < r.expires_at

\* the whole dataset is stored, with answered requests, a share link that
\* expires and one that does not, and the project of the third user
C17_Witness ==
    /\ Counts(db) = SampleCounts
    /\ \E r \in db["verification_request"] : r.responded_at # NONE
    /\ \E r \in db["share_link"] : r.expires_at # NONE
    /\ \E r \in db["share_link"] : r.expires_at = NONE
    /\ \E u \in db["user"] :
          /\ u.username = "alexj"
          /\ ChildrenOf(u, "user", "resume_project", "user_id") # {}
          /\ ChildrenOf(u, "user", "session", "user_id") # {}

\* the users who own the project share link l is on
OwnersOf(l) ==
    {u \in db["user"] :
        \E p \in db["resume_project"] :
            p.project_id = l.project_id /\ p.user_id = u.user_id}

\* C18: in the stored sample rows every share link with access_type edit is
\* on a project of a premium user, and every share link on a project of a
\* normal user has access_type view.
C18_EditOnlyPremium ==
    \A l \in db["share_link"] : \A u \in OwnersOf(l) :
        /\ l.access_type = "edit" => u.tier = "premium"
        /\ u.tier = "normal" => l.access_type = "view"

\* the share links are stored: an edit link of the premium user and a view
\* link of a normal user
C18_Witness ==
    /\ \E l \in db["share_link"] :
          l.access_type = "edit" /\ \E u \in OwnersOf(l) : u.tier = "premium"
    /\ \E l \in db["share_link"] :
          l.access_type = "view" /\ \E u \in OwnersOf(l) : u.tier = "normal"

====
